---- MODULE Spec2Model ----
(***************************************************************************)
(* The creators search index (creators.search-index) and the orchestrator  *)
(* that drives it.                                                         *)
(*                                                                         *)
(* onIndexSetup / onIndexUpdate are translated from the source.  The       *)
(* orchestrator (createSearchIndexUpdateProcessor in base.search-index:    *)
(* lease, watermark, swap, queue clearing) is not among the sources; it is *)
(* modelled from sections 4.1, 4.2 and 4.6 of the specification.  The      *)
(* index engine and the writers of the user table are the environment.     *)
(***************************************************************************)
EXTENDS Integers, Sequences, FiniteSets, TLC

\* ---------------------------------------------------------------- bounds
MaxId   == 3      \* user ids are 1..MaxId
MaxTime == 2      \* the clock runs 1..MaxTime; every store write ticks it

\* READ_BATCH_SIZE is 1000 in the source; the page size is scaled to 2 so
\* that a store of MaxId rows spans a full page, a short page and (with an
\* even number of rows) a trailing empty page.
READ_BATCH_SIZE == 2
INDEX_ID      == "creators"
SWAP_INDEX_ID == "creators_NEW"

Ids        == 1..MaxId
\* runSync is triggered by the periodic job and on demand; the two may
\* overlap.  Each trigger retries while it is skipped and performs one run.
Runners    == {"scheduled", "onDemand"}
IndexNames == {INDEX_ID, SWAP_INDEX_ID}

VARIABLES
  client,      \* TRUE iff an index engine client is configured
  user,        \* db.user: [Ids -> row]
  queue,       \* ids with a searchIndexUpdateQueue entry of type INDEX_ID
  watermark,   \* RunWatermark.lastUpdatedAt, 0 = absent
  now,         \* wall clock
  index,       \* the index engine's indexes, by name
  tasks,       \* the index engine's task list; taskUid = position
  lease,       \* "free", the runner holding the lease, or "stale"
  run          \* per runner: the position and locals of its run

vars == <<client, user, queue, watermark, now, index, tasks, lease, run>>

\* ------------------------------------------------------------ data model
NoRow == [exists |-> FALSE, createdAt |-> 0, updatedAt |-> 0,
          deleted |-> FALSE, metrics |-> "array"]

NewRow(t, m) == [exists |-> TRUE, createdAt |-> t, updatedAt |-> t,
                 deleted |-> FALSE, metrics |-> m]

NoDocs == [i \in Ids |-> 0]

EmptyIndex == [exists |-> FALSE, searchable |-> FALSE, sortable |-> FALSE,
               docs |-> NoDocs]

\* A runner between runs.  result tells that its last trigger was skipped
\* or how its run failed; the
\* start* fields record the shared state as the run found it, dbRead and
\* submitted what onIndexUpdate has read and sent so far.
IdleRun == [pc |-> "idle", result |-> "none", mode |-> "none",
            indexName |-> INDEX_ID, lastUpdatedAt |-> 0, ret |-> "none",
            setupTasks |-> <<>>, offset |-> 0, tagTasks |-> <<>>,
            queuedItems |-> {}, pendingIds |-> {},
            startWatermark |-> 0, startQueue |-> {}, startLive |-> NoDocs,
            startNow |-> 0, dbRead |-> FALSE, submitted |-> {}]

Skipped == [IdleRun EXCEPT !.result = "skipped"]

EndedRun == [IdleRun EXCEPT !.pc = "ended"]

DocIds(d) == {i \in Ids : d[i] # 0}

Finished(t) == t.status \in {"succeeded", "failed"}

Min(a, b) == IF a < b THEN a ELSE b

SeqToSet(s) == {s[i] : i \in 1..Len(s)}

\* ------------------------------------------------------------------ Init
\* A fresh deployment: no watermark, an empty change queue, no index, no
\* run.  The user table holds rows 1..n (ids are assigned in sequence); row
\* 1 may be malformed (its metrics relation is not an array).
Init ==
  /\ client \in BOOLEAN
  /\ \E n \in 0..MaxId, bad \in 0..1 :
       /\ bad <= n
       /\ user = [i \in Ids |->
                    IF i <= n
                    THEN NewRow(1, IF i = bad THEN "undefined" ELSE "array")
                    ELSE NoRow]
  /\ queue = {}
  /\ watermark = 0
  /\ now = 1
  /\ index = [n \in IndexNames |-> EmptyIndex]
  /\ tasks = <<>>
  /\ lease = "free"
  /\ run = [r \in Runners |-> IdleRun]

\* ----------------------------------------- environment: the user table
\* Mutation paths of the application.  Every write ticks the clock and
\* stamps the row; an update or delete enqueues the id best-effort.
InsertUser ==
  /\ now < MaxTime
  /\ \E i \in Ids :
       /\ ~user[i].exists
       /\ \A j \in Ids : j < i => user[j].exists
       /\ user' = [user EXCEPT ![i] = NewRow(now + 1, "array")]
  /\ now' = now + 1
  /\ UNCHANGED <<client, queue, watermark, index, tasks, lease, run>>

UpdateUser ==
  /\ now < MaxTime
  /\ \E i \in Ids, enq \in BOOLEAN :
       /\ user[i].exists /\ ~user[i].deleted
       /\ user' = [user EXCEPT ![i].updatedAt = now + 1]
       /\ queue' = IF enq THEN queue \cup {i} ELSE queue
  /\ now' = now + 1
  /\ UNCHANGED <<client, watermark, index, tasks, lease, run>>

SoftDeleteUser ==
  /\ now < MaxTime
  /\ \E i \in Ids :
       /\ user[i].exists /\ ~user[i].deleted
       /\ user' = [user EXCEPT ![i].deleted = TRUE, ![i].updatedAt = now + 1]
       /\ queue' = queue \cup {i}
  /\ now' = now + 1
  /\ UNCHANGED <<client, watermark, index, tasks, lease, run>>

\* ------------------------------------------- environment: index engine
\* A task as the engine enqueues it.  target records the index the run
\* that submitted it was given as indexName.
Enqueue(name, type, docs, r) ==
  Append(tasks, [indexUid |-> name, type |-> type, docs |-> docs,
                 status |-> "enqueued", target |-> run[r].indexName])

\* Effect of a task that succeeds.  A document task creates its index when
\* it does not exist; documents are full replacements keyed by id.
Apply(t) ==
  IF t.type = "searchableAttributes"
  THEN [index EXCEPT ![t.indexUid].searchable = TRUE]
  ELSE IF t.type = "sortableAttributes"
  THEN [index EXCEPT ![t.indexUid].sortable = TRUE]
  ELSE [index EXCEPT ![t.indexUid].exists = TRUE,
                     ![t.indexUid].docs =
                        [i \in Ids |-> IF t.docs[i] # 0 THEN t.docs[i] ELSE @[i]]]

\* The engine runs its tasks in order, one at a time; a task ends succeeded
\* or failed.  The engine may reject a batch of documents; the settings
\* tasks carry the fixed attribute lists of onIndexSetup and are accepted.
ProcessTask ==
  \E k \in 1..Len(tasks) :
    /\ tasks[k].status = "enqueued"
    /\ \A j \in 1..(k - 1) : Finished(tasks[j])
    /\ \E ok \in BOOLEAN :
         IF ok \/ tasks[k].type # "documentAdditionOrUpdate"
         THEN /\ tasks' = [tasks EXCEPT ![k].status = "succeeded"]
              /\ index' = Apply(tasks[k])
         ELSE /\ tasks' = [tasks EXCEPT ![k].status = "failed"]
              /\ index' = index
    /\ UNCHANGED <<client, user, queue, watermark, now, lease, run>>

\* A join that takes only success for an end: it never returns once a task
\* has failed.
waitForTasks_UntilSucceeded(uids) ==
  \A k \in SeqToSet(uids) : tasks[k].status = "succeeded"

\* client.waitForTasks(uids): returns once every task has ended, with the
\* tasks (status succeeded or failed) as its value.
waitForTasks(uids) == \A k \in SeqToSet(uids) : Finished(tasks[k])

\* ----------------------------------------------------- orchestrator
\* A lease that is granted whoever holds it.
LeaseFree_Always == TRUE

LeaseFree == lease = "free"

\* No run is between acquiring the lease and ending.
Quiet == \A q \in Runners : run[q].pc \in {"idle", "ended"}

\* The engine forgets its finished tasks once no run holds their uids.
Pruned == IF Quiet THEN SelectSeq(tasks, LAMBDA t : ~Finished(t)) ELSE tasks

\* The two triggers run the same code, so one order of their first attempts
\* stands for both: the periodic job is the first to be triggered.
First(r) == r = "onDemand" => run["scheduled"].pc # "idle"

\* runSync(indexKind), triggered from outside (a schedule or on demand).
\* Idle -> Acquiring: take the lease, or end as skipped when it is held.
\* With the lease the run reads the watermark and the pending ids and picks
\* its mode and target index; a bootstrap first discards what an earlier
\* attempt left in the shadow index and runs onIndexSetup on the shadow.
runSync(r) ==
  /\ run[r].pc = "idle"
  /\ First(r)
  /\ IF LeaseFree
     THEN /\ lease' = r
          /\ run' = [run EXCEPT ![r] = [IdleRun EXCEPT
               !.mode = IF watermark = 0 THEN "bootstrap" ELSE "incremental",
               !.indexName = IF watermark = 0 THEN SWAP_INDEX_ID ELSE INDEX_ID,
               !.lastUpdatedAt = watermark,
               !.pendingIds = queue,
               !.startWatermark = watermark,
               !.startQueue = queue,
               !.startLive = index[INDEX_ID].docs,
               !.startNow = now,
               !.ret = IF watermark = 0 THEN "orchestrator" ELSE "none",
               !.pc = IF watermark = 0 THEN "setup" ELSE "update"]]
          /\ index' = IF watermark = 0 /\ client
                      THEN [index EXCEPT ![SWAP_INDEX_ID] = EmptyIndex]
                      ELSE index
          /\ tasks' = Pruned
     ELSE /\ run' = [run EXCEPT ![r] = Skipped]
          /\ UNCHANGED <<lease, index, tasks>>
  /\ UNCHANGED <<client, user, queue, watermark, now>>

\* ------------------------------------------------- creators.search-index
\* Where onIndexSetup returns to: its caller is the orchestrator (bootstrap)
\* or onIndexUpdate.
SetupReturn(r) == IF run[r].ret = "orchestrator" THEN "update" ELSE "queue"

\* onIndexSetup, entry: without a client it returns at once; otherwise
\* getOrCreateIndex(indexName) yields the index, created when absent.
onIndexSetup(r) ==
  /\ run[r].pc = "setup"
  /\ IF ~client
     THEN /\ run' = [run EXCEPT ![r].pc = SetupReturn(r)]
          /\ index' = index
     ELSE /\ index' = [index EXCEPT ![run[r].indexName].exists = TRUE]
          /\ run' = [run EXCEPT ![r].pc = "searchable", ![r].setupTasks = <<>>]
  /\ UNCHANGED <<client, user, queue, watermark, now, tasks, lease>>

\* index.updateSearchableAttributes(['username'])
updateSearchableAttributes(r) ==
  /\ run[r].pc = "searchable"
  /\ tasks' = Enqueue(run[r].indexName, "searchableAttributes", NoDocs, r)
  /\ run' = [run EXCEPT ![r].pc = "sortable",
                        ![r].setupTasks = Append(@, Len(tasks) + 1)]
  /\ UNCHANGED <<client, user, queue, watermark, now, index, lease>>

\* index.updateSortableAttributes([...])
updateSortableAttributes(r) ==
  /\ run[r].pc = "sortable"
  /\ tasks' = Enqueue(run[r].indexName, "sortableAttributes", NoDocs, r)
  /\ run' = [run EXCEPT ![r].pc = "setupWait",
                        ![r].setupTasks = Append(@, Len(tasks) + 1)]
  /\ UNCHANGED <<client, user, queue, watermark, now, index, lease>>

\* await client.waitForTasks([searchable, sortable]); the value is dropped.
onIndexSetupWait(r) ==
  /\ run[r].pc = "setupWait"
  /\ waitForTasks(run[r].setupTasks)
  /\ run' = [run EXCEPT ![r].pc = SetupReturn(r)]
  /\ UNCHANGED <<client, user, queue, watermark, now, index, tasks, lease>>

\* onIndexUpdate without its first line.
onIndexUpdate_NoClientCheck(r) ==
  /\ run[r].pc = "update"
  /\ run' = [run EXCEPT ![r].pc = "setup", ![r].ret = "onIndexUpdate",
                        ![r].offset = 0, ![r].tagTasks = <<>>]
  /\ UNCHANGED <<client, user, queue, watermark, now, index, tasks, lease>>

\* onIndexUpdate, entry: without a client it returns at once; otherwise it
\* calls onIndexSetup({ indexName }) and sets offset = 0, tagTasks = [].
onIndexUpdate(r) ==
  /\ run[r].pc = "update"
  /\ IF ~client
     THEN run' = [run EXCEPT ![r].pc = "returned"]
     ELSE run' = [run EXCEPT ![r].pc = "setup", ![r].ret = "onIndexUpdate",
                             ![r].offset = 0, ![r].tagTasks = <<>>]
  /\ UNCHANGED <<client, user, queue, watermark, now, index, tasks, lease>>

\* queuedItems = db.searchIndexUpdateQueue.findMany({ where: { type } })
findQueuedItems(r) ==
  /\ run[r].pc = "queue"
  /\ run' = [run EXCEPT ![r].queuedItems = queue, ![r].dbRead = TRUE,
                        ![r].pc = "scan"]
  /\ UNCHANGED <<client, user, queue, watermark, now, index, tasks, lease>>

\* The where clause of db.user.findMany.
Where(i, lastUpdatedAt, queuedItems) ==
  /\ user[i].exists
  /\ ~user[i].deleted
  /\ \/ lastUpdatedAt = 0
     \/ user[i].createdAt > lastUpdatedAt
     \/ i \in queuedItems

\* The rows of S in the order a sequential read of the table meets them: a
\* row that is written gets a new physical version, behind the rows that
\* were written before it.
RECURSIVE PhysicalOrder(_)
PhysicalOrder(S) ==
  IF S = {} THEN <<>>
  ELSE LET m == CHOOSE x \in S : \A y \in S :
                  \/ user[x].updatedAt < user[y].updatedAt
                  \/ user[x].updatedAt = user[y].updatedAt /\ x <= y
       IN <<m>> \o PhysicalOrder(S \ {m})

\* db.user.findMany({ skip, take, where }): the call names no orderBy, so
\* the matching rows come in the order the store reads them, `take` of them
\* after the first `skip`.
findMany(skip, take, lastUpdatedAt, queuedItems) ==
  LET rows == PhysicalOrder({i \in Ids :
                               Where(i, lastUpdatedAt, queuedItems)})
  IN SubSeq(rows, skip + 1, Min(skip + take, Len(rows)))

\* The map callback: reading metrics[0] of a row whose metrics is not an
\* array throws.
TransformThrows(i) == user[i].metrics = "undefined"

\* users.map(...): the documents of a page, each carrying the version
\* (updatedAt) of the row it was made from.
indexReadyRecords(users) ==
  [i \in Ids |-> IF i \in SeqToSet(users) THEN user[i].updatedAt ELSE 0]

\* The index that receives the documents of a run.
UpsertTarget(r) == INDEX_ID

\* One turn of the while loop: read a page; stop on an empty page; map the
\* rows (a throw leaves the loop and rejects onIndexUpdate); submit the
\* batch, remember its task and advance the offset.
ScanPage(r) ==
  /\ run[r].pc = "scan"
  /\ LET users == findMany(run[r].offset, READ_BATCH_SIZE,
                           run[r].lastUpdatedAt, run[r].queuedItems)
     IN IF Len(users) = 0
        THEN /\ run' = [run EXCEPT ![r].pc = "wait", ![r].dbRead = TRUE]
             /\ tasks' = tasks
        ELSE IF \E i \in SeqToSet(users) : TransformThrows(i)
        THEN /\ run' = [run EXCEPT ![r].pc = "failed", ![r].dbRead = TRUE,
                                   ![r].result = "TransformError"]
             /\ tasks' = tasks
        ELSE /\ tasks' = Enqueue(UpsertTarget(r), "documentAdditionOrUpdate",
                                 indexReadyRecords(users), r)
             /\ run' = [run EXCEPT
                  ![r].tagTasks = Append(@, Len(tasks) + 1),
                  ![r].offset = @ + Len(users),
                  ![r].submitted = @ \cup SeqToSet(users),
                  ![r].dbRead = TRUE]
  /\ UNCHANGED <<client, user, queue, watermark, now, index, lease>>

\* The final join, were it to take only success for an end.
onIndexUpdateWait_UntilSucceeded(r) ==
  /\ run[r].pc = "wait"
  /\ waitForTasks_UntilSucceeded(run[r].tagTasks)
  /\ run' = [run EXCEPT ![r].pc = "returned"]
  /\ UNCHANGED <<client, user, queue, watermark, now, index, tasks, lease>>

\* onIndexUpdate, were it to return after the last page without the join.
onIndexUpdateWait_NoJoin(r) ==
  /\ run[r].pc = "wait"
  /\ run' = [run EXCEPT ![r].pc = "returned"]
  /\ UNCHANGED <<client, user, queue, watermark, now, index, tasks, lease>>

\* await client.waitForTasks(tagTasks.map(uid)); the value is dropped and
\* onIndexUpdate returns.
onIndexUpdateWait(r) ==
  /\ run[r].pc = "wait"
  /\ waitForTasks(run[r].tagTasks)
  /\ run' = [run EXCEPT ![r].pc = "returned"]
  /\ UNCHANGED <<client, user, queue, watermark, now, index, tasks, lease>>

\* Any await of the run may reject (store or engine unreachable).
InRun(r) == run[r].pc \in {"setup", "searchable", "sortable", "setupWait",
                           "update", "queue", "scan", "wait", "returned"}

IOError(r) ==
  /\ InRun(r)
  /\ client
  /\ run' = [run EXCEPT ![r].pc = "failed", ![r].result = "TransientIOError"]
  /\ UNCHANGED <<client, user, queue, watermark, now, index, tasks, lease>>

\* ------------------------------------------- orchestrator, continued
\* swap(live, shadow): the two names exchange their indexes atomically.
Swap ==
  [index EXCEPT ![INDEX_ID] = index[SWAP_INDEX_ID],
                ![SWAP_INDEX_ID] = index[INDEX_ID]]

WatermarkToWrite(r) == now

\* Finalizing, after onIndexUpdate returned: a bootstrap swaps the shadow
\* index live; an incremental run clears the queue entries it processed;
\* both then advance the watermark.
Finalize(r) ==
  /\ run[r].pc = "returned"
  /\ IF run[r].mode = "bootstrap"
     THEN /\ index' = IF client THEN Swap ELSE index
          /\ queue' = queue
     ELSE /\ index' = index
          /\ queue' = queue \ run[r].pendingIds
  /\ watermark' = WatermarkToWrite(r)
  /\ run' = [run EXCEPT ![r].pc = "done"]
  /\ UNCHANGED <<client, user, now, tasks, lease>>

\* Finalizing -> Idle and Failed -> Idle: release the lease.
Release(r) ==
  /\ run[r].pc \in {"done", "failed"}
  /\ lease' = "free"
  /\ run' = [run EXCEPT ![r] = EndedRun]
  /\ UNCHANGED <<client, user, queue, watermark, now, index, tasks>>

\* The process of a run dies with the lease held: the lease stays taken by
\* no live run.
Crash(r) ==
  /\ lease = r
  /\ InRun(r)
  /\ lease' = "stale"
  /\ run' = [run EXCEPT ![r] = EndedRun]
  /\ UNCHANGED <<client, user, queue, watermark, now, index, tasks>>

\* The TTL of a lease whose holder died runs out.
LeaseExpire ==
  /\ lease = "stale"
  /\ lease' = "free"
  /\ UNCHANGED <<client, user, queue, watermark, now, index, tasks, run>>

\* ------------------------------------------------------- specification
Next ==
  \/ InsertUser
  \/ UpdateUser
  \/ SoftDeleteUser
  \/ ProcessTask
  \/ LeaseExpire
  \/ \E r \in Runners :
       \/ runSync(r)
       \/ onIndexSetup(r)
       \/ updateSearchableAttributes(r)
       \/ updateSortableAttributes(r)
       \/ onIndexSetupWait(r)
       \/ onIndexUpdate(r)
       \/ findQueuedItems(r)
       \/ ScanPage(r)
       \/ onIndexUpdateWait(r)
       \/ IOError(r)
       \/ Finalize(r)
       \/ Release(r)
       \/ Crash(r)

Spec == Init /\ [][Next]_vars

\* A second specification for what must eventually happen: one deployment
\* (a client, one well-formed user row), and the scheduling the runtime
\* guarantees: a run whose awaited call has completed is resumed, the
\* engine works off
\* its tasks, a lease TTL runs out.  Triggers, rejections and crashes are
\* not forced.
InitLive ==
  /\ Init
  /\ client
  /\ \A i \in Ids : user[i].exists <=> i = 1
  /\ \A i \in Ids : user[i].metrics = "array"

RunStep(r) ==
  \/ onIndexSetup(r)
  \/ updateSearchableAttributes(r)
  \/ updateSortableAttributes(r)
  \/ onIndexSetupWait(r)
  \/ onIndexUpdate(r)
  \/ findQueuedItems(r)
  \/ ScanPage(r)
  \/ onIndexUpdateWait(r)
  \/ Finalize(r)
  \/ Release(r)

SpecLive ==
  /\ InitLive
  /\ [][Next]_vars
  /\ \A r \in Runners : WF_vars(RunStep(r))
  /\ WF_vars(ProcessTask)
  /\ WF_vars(LeaseExpire)

\* ---------------------------------------------------------------- claims
LiveRows == {i \in Ids : user[i].exists /\ ~user[i].deleted}

AllSucceeded(uids) == \A k \in SeqToSet(uids) : tasks[k].status = "succeeded"

AnyFailed(uids) == \E k \in SeqToSet(uids) : tasks[k].status = "failed"

\* C1: during a bootstrap run (indexName is the shadow index) every document
\* upsert submitted by onIndexUpdate goes to the shadow index, none to the
\* live index, and before the swap the live index holds what it held when
\* the run started.
C1_AtomicVisibility ==
  /\ \A k \in 1..Len(tasks) :
       (tasks[k].type = "documentAdditionOrUpdate"
          /\ tasks[k].target = SWAP_INDEX_ID)
       => tasks[k].indexUid = SWAP_INDEX_ID
  /\ \A r \in Runners :
       (run[r].mode = "bootstrap" /\ InRun(r))
       => index[INDEX_ID].docs = run[r].startLive

\* C2: after a successful bootstrap run (all upsert tasks joined and
\* succeeded, shadow swapped live) over a store that was not written during
\* the run, the live index holds exactly one document per row that is not
\* soft-deleted.
C2_BootstrapComplete ==
  \A r \in Runners :
    (/\ client
     /\ run[r].pc = "done"
     /\ run[r].mode = "bootstrap"
     /\ AllSucceeded(run[r].tagTasks)
     /\ run[r].startNow = now)
    => DocIds(index[INDEX_ID].docs) = LiveRows

\* C3: a row (not soft-deleted) is read by a run iff the watermark is
\* absent, or the row was last modified after the watermark, or its id is
\* among the pending queue ids.
C3_ReadSet ==
  \A r \in Runners :
    run[r].pc = "scan" =>
      \A i \in LiveRows :
        Where(i, run[r].lastUpdatedAt, run[r].queuedItems)
        <=> \/ run[r].lastUpdatedAt = 0
            \/ user[i].updatedAt > run[r].lastUpdatedAt
            \/ i \in run[r].queuedItems

\* C4: a queue entry is deleted only by a run whose join confirmed every
\* upsert task as succeeded, the task carrying the entity's document among
\* them.
C4_QueueDrainSafety ==
  [][client =>
       \A i \in queue \ queue' :
         \E r \in Runners :
           /\ run[r].pc = "returned"
           /\ AllSucceeded(run[r].tagTasks)
           /\ i \in LiveRows => i \in run[r].submitted]_vars

\* C5: the watermark never decreases, and it is written only by a run
\* whose documents were confirmed persisted: every upsert task of the run
\* has succeeded when the run finalizes.
C5_WatermarkMonotone ==
  [][/\ watermark' >= watermark
     /\ watermark' # watermark =>
          \E r \in Runners : run[r].pc = "returned" /\ run'[r].pc = "done"
     /\ \A r \in Runners :
          (client /\ run[r].pc = "returned" /\ run'[r].pc = "done")
          => AllSucceeded(run[r].tagTasks)]_vars

\* A run between acquiring the lease and releasing it.
Running(r) == InRun(r) \/ run[r].pc \in {"done", "failed"}

C7_TaskFailureFailsRun ==
  \A r \in Runners :
    (client /\ AnyFailed(run[r].tagTasks))
    => run[r].pc \notin {"returned", "done"}

\* C8: without a client, onIndexSetup and onIndexUpdate return successfully
\* and nothing is read from the store or the queue, no index is created or
\* configured, no task is submitted or awaited.
C8_GracefulDisablement ==
  ~client =>
    /\ tasks = <<>>
    /\ \A n \in IndexNames : index[n] = EmptyIndex
    /\ \A r \in Runners :
         /\ ~run[r].dbRead
         /\ run[r].pc \in {"idle", "setup", "update", "returned", "done", "ended"}

\* Without a client, a bootstrap run is past onIndexSetup and onIndexUpdate
\* has returned.
C8_Witness ==
  /\ ~client
  /\ \E r \in Runners : run[r].pc = "returned" /\ run[r].mode = "bootstrap"

\* C9: when the transform of one row of a page throws, the row is skipped,
\* the other rows of the page are still upserted and the run does not fail:
\* no run fails on a transform error.
C9_TransformFaultIsolation ==
  \A r \in Runners :
    run[r].result = "TransformError" => run[r].pc # "failed"

\* What a failed run must have left alone: the watermark, and every queue
\* entry that was there when it started.
FailedRunLeaves(r) ==
  /\ watermark = run[r].startWatermark
  /\ run[r].startQueue \subseteq queue

C11_FinalJoinBarrier ==
  \A r \in Runners :
    run[r].pc \in {"returned", "done"}
    => \A k \in SeqToSet(run[r].tagTasks) : Finished(tasks[k])

\* A run that submitted two batches has returned from onIndexUpdate, one of
\* its tasks having failed.
C11_Witness ==
  \E r \in Runners :
    /\ run[r].pc = "returned"
    /\ Len(run[r].tagTasks) = 2
    /\ AnyFailed(run[r].tagTasks)

\* ------------------------------------------------------------------ C12
\* C12: schema before documents.  Whenever a run has submitted a document
\* upsert, both schema tasks of its onIndexSetup (searchable and sortable
\* attributes) have ended, and they configured the index that the run's
\* upserts were submitted to.
C12_SchemaBeforeDocuments ==
  \A r \in Runners :
    run[r].tagTasks # <<>>
    => /\ Len(run[r].setupTasks) = 2
       /\ \A j \in SeqToSet(run[r].setupTasks) :
            /\ Finished(tasks[j])
            /\ \A k \in SeqToSet(run[r].tagTasks) :
                 tasks[j].indexUid = tasks[k].indexUid

\* ------------------------------------------------------------------ C13
\* C13: no duplicate ids within a run.  Any two batches that one run has
\* submitted hold disjoint sets of entity ids, whatever the application
\* wrote to the store between the page reads.
C13_NoDuplicateIds ==
  \A r \in Runners :
    \A a, b \in 1..Len(run[r].tagTasks) :
      a < b => DocIds(tasks[run[r].tagTasks[a]].docs)
                 \cap DocIds(tasks[run[r].tagTasks[b]].docs) = {}

\* ------------------------------------------------------------------ C14
\* The upsert tasks a run has submitted that have not ended yet.
InFlight(r) == {k \in SeqToSet(run[r].tagTasks) : ~Finished(tasks[k])}

\* The number of batches the loop produces when it scans a store in which
\* every id is present.
FullScanBatches == (MaxId + READ_BATCH_SIZE - 1) \div READ_BATCH_SIZE

\* C14: backpressure.  The number of upsert tasks in flight stays under a
\* bound that does not grow with the number of batches: at no point are as
\* many tasks in flight as a scan of the full store has batches.
C14_Backpressure ==
  \A r \in Runners : Cardinality(InFlight(r)) < FullScanBatches

\* ------------------------------------------------------------------ C15
\* C15: reader termination.  Every turn of the pagination loop that submits
\* a page advances the offset by exactly the number of rows of that page,
\* and a turn whose page held fewer rows than READ_BATCH_SIZE (or none) is
\* the last: the loop is left and no further page is read.
C15_ReaderTermination ==
  [][\A r \in Runners :
       (run[r].pc = "scan" /\ run'[r].pc \in {"scan", "wait"}
                           /\ run'[r] # run[r])
       => LET n == run'[r].offset - run[r].offset
          IN /\ run'[r].tagTasks # run[r].tagTasks
                  => n = Cardinality(DocIds(tasks'[Len(tasks')].docs))
             /\ n < READ_BATCH_SIZE => run'[r].pc # "scan"]_vars

====
